---- MODULE Spec2Model ----
(***************************************************************************)
(* A model of app.py: a Streamlit dashboard over a taxi-trip table and a   *)
(* diabetes survey table.  A DataFrame is a record [cols, rows]: the set   *)
(* of its column names and the sequence of its rows, each row a function   *)
(* from column name to cell.  The functions of app.py are operators that   *)
(* return what the call leaves behind: the returned frame (ret), the       *)
(* argument frame after the call (df: column assignments act in place),    *)
(* whether the call raised KeyError (err) and whether the returned object  *)
(* is the argument itself (alias = "df") or a new object (alias = "new").  *)
(*                                                                         *)
(* Units: "Trip Miles" and "GenHlth" cells are floats of the CSV files and *)
(* are held in half units (a cell 7 stands for 3.5); Income, BMI and       *)
(* Diabetes_binary cells are whole numbers; latitude and longitude cells   *)
(* are opaque (a string), "NaN" when the CSV field is empty.               *)
(***************************************************************************)
EXTENDS Integers, Sequences, FiniteSets, TLC

VARIABLES
    taxi_csv,       \* rows of data/taxi_sample.csv (storage)
    diabetes_csv,   \* rows of the BRFSS2015 csv (storage)
    reads,          \* how many times load_data's body has read storage
    loaded,         \* st.experimental_singleton holds load_data's result
    taxis,          \* the cached trip DataFrame object
    diabetes,       \* the cached survey DataFrame object
    memo_filter,    \* st.experimental_memo cache of filter_by_trip_distance
    memo_salary,    \* st.experimental_memo cache of diabetic_salary_prep
    first_filter,   \* history: target -> what the first filter call returned
    pc,             \* position of the script (or of a direct call)
    runs,           \* how many times the script has been (re)run
    call,           \* the call being made: its name and arguments
    result,         \* the object the latest call returned
    result_ref      \* "new": result is its own object; "taxis"/"diabetes": an alias

vars == <<taxi_csv, diabetes_csv, reads, loaded, taxis, diabetes, memo_filter,
          memo_salary, first_filter, pc, runs, call, result, result_ref>>

(***************************************************************************)
(* Bounds of the model.                                                    *)
(***************************************************************************)
MaxRows == 2        \* rows of a table drawn as input
MaxRuns == 2        \* script runs (the first run and the reruns)
OutOfRange == 2     \* how far past the slider range a direct call's target goes

(***************************************************************************)
(* Widget ranges of the script.                                            *)
(***************************************************************************)
SliderMin == 1
SliderMax == 25
SliderDefault == 10
BmiMin == 1
BmiMax == 100

(***************************************************************************)
(* DataFrames.  A Series is a function from row positions to cells.        *)
(***************************************************************************)
NaN == "NaN"

NoFrame == [cols |-> {}, rows |-> <<>>]

Frame(cols, rows) == [cols |-> cols, rows |-> rows]

\* df[c]: the Series of column c.
Column(df, c) == [i \in DOMAIN df.rows |-> df.rows[i][c]]

\* df[c] = series: assigns (adds or overwrites) column c, in place.
AddColumn(df, c, series) ==
    [cols |-> df.cols \cup {c},
     rows |-> [i \in DOMAIN df.rows |->
                 [k \in df.cols \cup {c} |->
                    IF k = c THEN series[i] ELSE df.rows[i][k]]]]

\* df[mask].copy(): the rows whose mask cell is true, in order, as a new object.
Select(df, mask) ==
    LET kept == SelectSeq([i \in DOMAIN df.rows |-> i], LAMBDA i : mask[i])
    IN  [cols |-> df.cols, rows |-> [k \in DOMAIN kept |-> df.rows[kept[k]]]]

\* df[[c1, c2, ...]]: the projection on the columns cs.
Project(df, cs) ==
    [cols |-> cs,
     rows |-> [i \in DOMAIN df.rows |-> [k \in cs |-> df.rows[i][k]]]]

\* ~series
Not(series) == [i \in DOMAIN series |-> ~series[i]]

\* Series.astype(bool) on a numeric cell.
astype_bool(x) == x # 0

\* int(x) on a non-negative float held in half units: truncation.
int_of(x) == x \div 2

\* pd.to_numeric on a cell of a column read_csv already parsed as float.
to_numeric(x) == x

(***************************************************************************)
(* load_data.                                                              *)
(***************************************************************************)
TripColumns == {"Pickup_Centroid_Latitude", "Pickup_Centroid_Longitude", "Trip Miles"}

SurveyColumns == {"Diabetes_binary", "Income", "GenHlth", "BMI"}

\* pd.read_csv: the file's rows as a DataFrame.
read_csv(file, cols) == Frame(cols, file)

\* .dropna(subset=["Pickup_Centroid_Longitude","Pickup_Centroid_Latitude"])
dropna_lonlat(df) ==
    Select(df, [i \in DOMAIN df.rows |->
                  /\ df.rows[i]["Pickup_Centroid_Longitude"] # NaN
                  /\ df.rows[i]["Pickup_Centroid_Latitude"] # NaN])

singleton_hit_never(isLoaded) == FALSE

\* @st.experimental_singleton: the body runs only while nothing is cached.
singleton_hit(isLoaded) == isLoaded

(***************************************************************************)
(* filter_by_trip_distance and map.                                        *)
(***************************************************************************)
between_exclusive_left(series, lo, hi) ==
    [i \in DOMAIN series |-> lo < series[i] /\ series[i] <= hi]

\* Series.between(lo, hi): inclusive on both sides.
between(series, lo, hi) ==
    [i \in DOMAIN series |-> lo <= series[i] /\ series[i] <= hi]

\* A whole number of miles in the half units of the "Trip Miles" cells.
miles(n) == 2 * n

filter_validating(df, length_of_trip) ==
    IF length_of_trip < 1 \/ length_of_trip > 25
      THEN [err |-> FALSE, alias |-> "new", df |-> df,
            ret |-> Select(df, [i \in DOMAIN df.rows |-> FALSE])]
      ELSE [err |-> FALSE, alias |-> "new", df |-> df,
            ret |-> Select(df, between(Column(df, "Trip Miles"),
                                       miles(length_of_trip - 1),
                                       miles(length_of_trip)))]

filter_no_copy(df, length_of_trip) ==
    LET sub == Select(df, between(Column(df, "Trip Miles"),
                                  miles(length_of_trip - 1), miles(length_of_trip)))
    IN  IF sub = df
          THEN [err |-> FALSE, alias |-> "df", df |-> df, ret |-> df]
          ELSE [err |-> FALSE, alias |-> "new", df |-> df, ret |-> sub]

\* df[df["Trip Miles"].between(length_of_trip - 1, length_of_trip)].copy()
filter_by_trip_distance(df, length_of_trip) ==
    [err |-> FALSE, alias |-> "new", df |-> df,
     ret |-> Select(df, between(Column(df, "Trip Miles"),
                                miles(length_of_trip - 1), miles(length_of_trip)))]

\* map(data, ...): adds the columns 'lat' and 'lon' to data, in place.
map(data) ==
    LET d1 == AddColumn(data, "lat",
                [i \in DOMAIN data.rows |->
                   to_numeric(Column(data, "Pickup_Centroid_Latitude")[i])])
    IN  AddColumn(d1, "lon",
                [i \in DOMAIN d1.rows |->
                   to_numeric(Column(d1, "Pickup_Centroid_Longitude")[i])])

(***************************************************************************)
(* diabetic_salary_prep.                                                   *)
(***************************************************************************)
income_code_to_text ==
    (1 :> "Less than $10,000") @@ (2 :> "$10,000 - $15,000") @@
    (3 :> "$15,000 - $20,000") @@ (4 :> "$20,000 - $25,000") @@
    (5 :> "$25,000 - $35,000") @@ (6 :> "$35,000 - $50,000") @@
    (7 :> "$50,000 - $75,000") @@ (8 :> "$75,000 or more") @@
    (77 :> "Don?t know/Not sure") @@ (99 :> "Refused")
    \* (the label of 77 holds a mis-encoded apostrophe in the source: "?" here)

applicable_ignores_status(df, diab_status) ==
    Select(df, Column(df, "Has Diabetes"))

\* df[df['Has Diabetes']] for "True", df[~df['Has Diabetes']] otherwise.
applicable(df, diab_status) ==
    IF diab_status = "True"
      THEN Select(df, Column(df, "Has Diabetes"))
      ELSE Select(df, Not(Column(df, "Has Diabetes")))

\* The keys of groupby(["Income","Has Diabetes"]): the pairs that occur.
group_keys(df) ==
    {<<df.rows[i]["Income"], df.rows[i]["Has Diabetes"]>> : i \in DOMAIN df.rows}

group_size_nunique(df, k) ==
    Cardinality({df.rows[i] : i \in {j \in DOMAIN df.rows :
                   <<df.rows[j]["Income"], df.rows[j]["Has Diabetes"]>> = k}})

\* .size() of one group.
group_size(df, k) ==
    Cardinality({i \in DOMAIN df.rows :
                   <<df.rows[i]["Income"], df.rows[i]["Has Diabetes"]>> = k})

\* groupby sorts its keys: by Income, then False before True.
key_rank(k) == 2 * k[1] + (IF k[2] THEN 1 ELSE 0)

RECURSIVE sorted_keys(_)
sorted_keys(S) ==
    IF S = {} THEN <<>>
    ELSE LET m == CHOOSE x \in S : \A y \in S : key_rank(x) <= key_rank(y)
         IN  <<m>> \o sorted_keys(S \ {m})

\* diabetes_applicable[['Income', 'Has Diabetes']].groupby(...).size()
\* .reset_index() with the columns renamed (lines 56-57).
diabetes_counts(df) ==
    LET pairs == Project(df, {"Income", "Has Diabetes"})
        ks    == sorted_keys(group_keys(pairs))
    IN  Frame({"Income", "Has Diabetes", "Number of Individuals"},
              [i \in DOMAIN ks |->
                 ("Income" :> ks[i][1]) @@ ("Has Diabetes" :> ks[i][2]) @@
                 ("Number of Individuals" :> group_size(pairs, ks[i]))])

\* df['Has Diabetes'] = df['Diabetes_binary'].astype(bool)
has_diabetes(df) ==
    AddColumn(df, "Has Diabetes",
              [i \in DOMAIN df.rows |-> astype_bool(Column(df, "Diabetes_binary")[i])])

salary_prep_recodes_first(diabetes_df, diab_status) ==
    LET df1    == has_diabetes(diabetes_df)
        counts == diabetes_counts(applicable(df1, diab_status))
        bad    == \E i \in DOMAIN df1.rows :
                     df1.rows[i]["Income"] \notin DOMAIN income_code_to_text
    IN  IF bad
          THEN [err |-> TRUE, alias |-> "new", df |-> df1, ret |-> NoFrame]
          ELSE [err |-> FALSE, alias |-> "new", df |-> df1,
                ret |-> AddColumn(counts, "Income Bracket",
                          [i \in DOMAIN counts.rows |->
                             income_code_to_text[counts.rows[i]["Income"]]])]

\* The body of diabetic_salary_prep (lines 49-59): income_code_to_text[x]
\* raises KeyError on a code that is not a key.
diabetic_salary_prep(diabetes_df, diab_status) ==
    LET df1    == has_diabetes(diabetes_df)
        counts == diabetes_counts(applicable(df1, diab_status))
        bad    == \E i \in DOMAIN counts.rows :
                     counts.rows[i]["Income"] \notin DOMAIN income_code_to_text
    IN  IF bad
          THEN [err |-> TRUE, alias |-> "new", df |-> df1, ret |-> NoFrame]
          ELSE [err |-> FALSE, alias |-> "new", df |-> df1,
                ret |-> AddColumn(counts, "Income Bracket",
                          [i \in DOMAIN counts.rows |->
                             income_code_to_text[counts.rows[i]["Income"]]])]

(***************************************************************************)
(* diabetic_bmi_prep and the BMI ceiling the script applies to its result. *)
(***************************************************************************)
diabetic_bmi_prep(diabetes_df) ==
    LET df1 == AddColumn(diabetes_df, "Has Diabetes Bin",
                 [i \in DOMAIN diabetes_df.rows |->
                    astype_bool(Column(diabetes_df, "Diabetes_binary")[i])])
        df2 == AddColumn(df1, "Diabetic Status",
                 [i \in DOMAIN df1.rows |->
                    IF Column(df1, "Has Diabetes Bin")[i] THEN "Diabetic"
                                                          ELSE "Non-Diabetic"])
    IN  [err |-> FALSE, alias |-> "df", df |-> df2, ret |-> df2]

bmi_ceiling_strict(prepared, max_bmi) ==
    Select(prepared, [i \in DOMAIN prepared.rows |-> prepared.rows[i]["BMI"] < max_bmi])

\* prepared_diabetes[prepared_diabetes['BMI'] <= max_bmi]
bmi_ceiling(prepared, max_bmi) ==
    Select(prepared, [i \in DOMAIN prepared.rows |-> prepared.rows[i]["BMI"] <= max_bmi])

(***************************************************************************)
(* gen_health_prep.                                                        *)
(***************************************************************************)
gen_hlth_mapping ==
    (1 :> "Excellent") @@ (2 :> "Very Good") @@ (3 :> "Good") @@
    (4 :> "Fair") @@ (5 :> "Poor") @@ (7 :> "Don't know / Not Sure") @@
    (9 :> "Refused")

human_readable_swapped(x) == IF x = 1 THEN "Non-Diabetic" ELSE "Diabetic"

\* lambda x : "Diabetic" if x == 1 else "Non-Diabetic"
human_readable(x) == IF x = 1 THEN "Diabetic" ELSE "Non-Diabetic"

\* gen_hlth_mapping[int(x)] raises KeyError before the column is assigned.
gen_health_prep(qualitative_data, diab_status) ==
    LET df1 == has_diabetes(qualitative_data)
        bad == \E i \in DOMAIN df1.rows :
                  int_of(df1.rows[i]["GenHlth"]) \notin DOMAIN gen_hlth_mapping
        df2 == AddColumn(df1, "General_Health_Assessment",
                 [i \in DOMAIN df1.rows |->
                    gen_hlth_mapping[int_of(Column(df1, "GenHlth")[i])]])
        df3 == AddColumn(df2, "has_diabetes_human_readable",
                 [i \in DOMAIN df2.rows |->
                    human_readable(Column(df2, "Diabetes_binary")[i])])
    IN  IF bad
          THEN [err |-> TRUE, alias |-> "new", df |-> df1, ret |-> NoFrame]
          ELSE [err |-> FALSE, alias |-> "new", df |-> df3,
                ret |-> applicable(df3, diab_status)]

(***************************************************************************)
(* Inputs.                                                                 *)
(***************************************************************************)
SeqsUpTo(S, n) == UNION {[1..k -> S] : k \in 0..n}

Flags == {"True", "False"}

TripRow(lat, lon, m) ==
    ("Pickup_Centroid_Latitude" :> lat) @@ ("Pickup_Centroid_Longitude" :> lon) @@
    ("Trip Miles" :> m)

SurveyRow(d, i, g, b) ==
    ("Diabetes_binary" :> d) @@ ("Income" :> i) @@ ("GenHlth" :> g) @@ ("BMI" :> b)

\* The table of the end-to-end scenario: (diabetes, income, genHlth) =
\* (1, 3, 2), (0, 3, 4), (1, 3, 2).
ExampleSurvey ==
    Frame(SurveyColumns,
          <<SurveyRow(1, 3, 4, 30), SurveyRow(0, 3, 8, 30), SurveyRow(1, 3, 4, 30)>>)

\* Targets of a direct call: the slider's range and OutOfRange past each end.
DirectTargets == (SliderMin - OutOfRange)..(SliderMax + OutOfRange)

\* Distances (half miles, none negative) around the window of target t.
MilesNear(t) ==
    {m \in {miles(t - 1) - 1, miles(t - 1), miles(t) - 1, miles(t), miles(t) + 1} :
        m >= 0} \cup {0}

DiabetesCodes == {0, 1, 2}

IncomeCodes == (DOMAIN income_code_to_text) \cup {98}

\* GenHlth cells in half units: the codes 1..5, 7, 9, then 3.5 and 6.
GenHlthCells == {2, 4, 6, 8, 10, 14, 18, 7, 12}

TripTablesNear(t) ==
    {Frame(TripColumns, rows) :
       rows \in SeqsUpTo({TripRow("41.9", "-87.6", m) : m \in MilesNear(t)}, MaxRows)}

SalaryTables ==
    {Frame(SurveyColumns, rows) :
       rows \in SeqsUpTo({SurveyRow(d, i, 4, 30) :
                            d \in DiabetesCodes, i \in IncomeCodes}, MaxRows)}

GenHealthTables ==
    {Frame(SurveyColumns, rows) :
       rows \in SeqsUpTo({SurveyRow(d, 3, g, 30) :
                            d \in DiabetesCodes, g \in GenHlthCells}, MaxRows)}

\* BMI cells around the ceiling c.
BmiTablesNear(c) ==
    {Frame(SurveyColumns, rows) :
       rows \in SeqsUpTo({SurveyRow(d, 3, 4, b) :
                            d \in {0, 1}, b \in {c - 1, c, c + 1}}, MaxRows)}

(***************************************************************************)
(* Direct calls: each function applied once to an input drawn at the start.*)
(***************************************************************************)
InitCalls ==
    /\ \/ \E t \in DirectTargets : \E d \in TripTablesNear(t) :
             call = [op |-> "filter_by_trip_distance", length_of_trip |-> t, df |-> d]
       \/ \E f \in Flags : \E d \in SalaryTables \cup {ExampleSurvey} :
             call = [op |-> "diabetic_salary_prep", diab_status |-> f, df |-> d]
       \/ \E f \in Flags : \E d \in GenHealthTables \cup {ExampleSurvey} :
             call = [op |-> "gen_health_prep", diab_status |-> f, df |-> d]
       \/ \E c \in BmiMin..BmiMax : \E d \in BmiTablesNear(c) :
             call = [op |-> "diabetic_bmi_prep", max_bmi |-> c, df |-> d]
    /\ pc = "ready"
    /\ taxi_csv = <<>> /\ diabetes_csv = <<>>
    /\ reads = 0 /\ loaded = FALSE /\ runs = 0
    /\ taxis = (IF call.op = "filter_by_trip_distance" THEN call.df ELSE NoFrame)
    /\ diabetes = (IF call.op = "filter_by_trip_distance" THEN NoFrame ELSE call.df)
    /\ memo_filter = {} /\ memo_salary = {} /\ first_filter = <<>>
    /\ result = NoFrame /\ result_ref = "new"

Outcome(o) == IF o.err THEN "raised" ELSE "returned"

AliasOf(o, name) == IF o.alias = "df" THEN name ELSE "new"

CallFilter ==
    /\ pc = "ready" /\ call.op = "filter_by_trip_distance"
    /\ LET o == filter_by_trip_distance(taxis, call.length_of_trip)
       IN  /\ taxis' = o.df
           /\ result' = o.ret
           /\ result_ref' = AliasOf(o, "taxis")
           /\ pc' = Outcome(o)
    /\ UNCHANGED <<taxi_csv, diabetes_csv, reads, loaded, diabetes, memo_filter,
                   memo_salary, first_filter, runs, call>>

CallSalary ==
    /\ pc = "ready" /\ call.op = "diabetic_salary_prep"
    /\ LET o == diabetic_salary_prep(diabetes, call.diab_status)
       IN  /\ diabetes' = o.df
           /\ result' = o.ret
           /\ result_ref' = AliasOf(o, "diabetes")
           /\ pc' = Outcome(o)
    /\ UNCHANGED <<taxi_csv, diabetes_csv, reads, loaded, taxis, memo_filter,
                   memo_salary, first_filter, runs, call>>

CallGenHealth ==
    /\ pc = "ready" /\ call.op = "gen_health_prep"
    /\ LET o == gen_health_prep(diabetes, call.diab_status)
       IN  /\ diabetes' = o.df
           /\ result' = o.ret
           /\ result_ref' = AliasOf(o, "diabetes")
           /\ pc' = Outcome(o)
    /\ UNCHANGED <<taxi_csv, diabetes_csv, reads, loaded, taxis, memo_filter,
                   memo_salary, first_filter, runs, call>>

CallBmiPrep ==
    /\ pc = "ready" /\ call.op = "diabetic_bmi_prep"
    /\ LET o == diabetic_bmi_prep(diabetes)
       IN  /\ diabetes' = o.df
           /\ result' = o.ret
           /\ result_ref' = AliasOf(o, "diabetes")
           /\ pc' = "prepared"
    /\ UNCHANGED <<taxi_csv, diabetes_csv, reads, loaded, taxis, memo_filter,
                   memo_salary, first_filter, runs, call>>

\* The object a reference names.
Deref(ref, obj) ==
    IF ref = "taxis" THEN taxis ELSE IF ref = "diabetes" THEN diabetes ELSE obj

CallBmiCeiling ==
    /\ pc = "prepared" /\ call.op = "diabetic_bmi_prep"
    /\ result' = bmi_ceiling(Deref(result_ref, result), call.max_bmi)
    /\ result_ref' = "new"
    /\ pc' = "returned"
    /\ UNCHANGED <<taxi_csv, diabetes_csv, reads, loaded, taxis, diabetes,
                   memo_filter, memo_salary, first_filter, runs, call>>

NextCalls ==
    \/ CallFilter
    \/ CallSalary
    \/ CallGenHealth
    \/ CallBmiPrep
    \/ CallBmiCeiling

SpecCalls == InitCalls /\ [][NextCalls]_vars

(***************************************************************************)
(* The script.  Streamlit runs it from the top on every interaction; the   *)
(* widgets hand it the values the user chose.  An uncaught KeyError ends   *)
(* the run ("halted"); the next interaction starts a new one.              *)
(***************************************************************************)
\* Values the slider (1..25, initially 10) hands over.
SliderValues == {SliderMin, SliderDefault, SliderMax}

\* Values the number input (1..100, initially 100) hands over.
BmiValues == {BmiMin, BmiMax}

TripFiles ==
    SeqsUpTo({TripRow(lat, lon, m) :
                lat \in {NaN, "41.9"}, lon \in {NaN, "-87.6"},
                m \in {miles(SliderMin), miles(SliderDefault) - 1}}, MaxRows)

SurveyFiles ==
    SeqsUpTo({SurveyRow(d, i, g, 30) :
                d \in {0, 1}, i \in {3, 98}, g \in {4, 12}}, MaxRows)

DefaultTripFile == <<TripRow("41.9", "-87.6", miles(SliderDefault) - 1)>>

DefaultSurveyFile == <<SurveyRow(1, 3, 4, 30)>>

\* The two tables are independent of each other: one file varies at a time.
Init ==
    /\ \/ taxi_csv \in TripFiles /\ diabetes_csv = DefaultSurveyFile
       \/ taxi_csv = DefaultTripFile /\ diabetes_csv \in SurveyFiles
    /\ reads = 0 /\ loaded = FALSE /\ runs = 1
    /\ taxis = NoFrame /\ diabetes = NoFrame
    /\ memo_filter = {} /\ memo_salary = {} /\ first_filter = <<>>
    /\ pc = "load"
    /\ call = [op |-> "none"]
    /\ result = NoFrame /\ result_ref = "new"

\* taxis, diabetes = load_data()
LoadData ==
    /\ pc = "load"
    /\ IF singleton_hit(loaded)
         THEN UNCHANGED <<reads, loaded, taxis, diabetes>>
         ELSE /\ taxis' = dropna_lonlat(read_csv(taxi_csv, TripColumns))
              /\ diabetes' = read_csv(diabetes_csv, SurveyColumns)
              /\ reads' = reads + 1
              /\ loaded' = TRUE
    /\ call' = [op |-> "load_data"]
    /\ pc' = "filter"
    /\ UNCHANGED <<taxi_csv, diabetes_csv, memo_filter, memo_salary, first_filter,
                   runs, result, result_ref>>

\* filter_by_trip_distance(taxis, length_of_trip), through its memo cache: a
\* hit hands back a copy of the stored value and does not run the body.
ScriptFilter ==
    /\ pc = "filter"
    /\ \E t \in SliderValues :
         LET hits == {e \in memo_filter : e.df = taxis /\ e.length_of_trip = t}
             o    == filter_by_trip_distance(taxis, t)
         IN  /\ call' = [op |-> "filter_by_trip_distance", length_of_trip |-> t,
                         df |-> taxis, hit |-> hits # {}]
             /\ IF hits # {}
                  THEN /\ result' = (CHOOSE e \in hits : TRUE).value
                       /\ result_ref' = "new"
                       /\ UNCHANGED <<taxis, memo_filter>>
                  ELSE /\ taxis' = o.df
                       /\ result' = o.ret
                       /\ result_ref' = AliasOf(o, "taxis")
                       /\ memo_filter' = memo_filter \cup
                             {[df |-> taxis, length_of_trip |-> t, value |-> o.ret]}
             /\ first_filter' = IF t \in DOMAIN first_filter
                                  THEN first_filter
                                  ELSE (t :> result') @@ first_filter
    /\ pc' = "map"
    /\ UNCHANGED <<taxi_csv, diabetes_csv, reads, loaded, diabetes, memo_salary, runs>>

\* map(<the filter's result>, ...): the columns are added to that object.
ScriptMap ==
    /\ pc = "map"
    /\ IF result_ref = "taxis"
         THEN /\ taxis' = map(taxis)
              /\ result' = map(taxis)
         ELSE /\ result' = map(result)
              /\ UNCHANGED taxis
    /\ pc' = "salary"
    /\ UNCHANGED <<taxi_csv, diabetes_csv, reads, loaded, diabetes, memo_filter,
                   memo_salary, first_filter, runs, call, result_ref>>

\* diabetic_salary_prep(diabetes, diabetes_status)[["Income Bracket",
\* "Number of Individuals"]], through its memo cache.
ScriptSalary ==
    /\ pc = "salary"
    /\ \E f \in Flags :
         LET hits == {e \in memo_salary : e.df = diabetes /\ e.diab_status = f}
             o    == diabetic_salary_prep(diabetes, f)
             cols == {"Income Bracket", "Number of Individuals"}
         IN  /\ call' = [op |-> "diabetic_salary_prep", diab_status |-> f,
                         df |-> diabetes, hit |-> hits # {}]
             /\ IF hits # {}
                  THEN /\ result' = Project((CHOOSE e \in hits : TRUE).value, cols)
                       /\ pc' = "bmi_prep"
                       /\ UNCHANGED <<diabetes, memo_salary>>
                  ELSE /\ diabetes' = o.df
                       /\ IF o.err
                            THEN /\ result' = NoFrame
                                 /\ pc' = "halted"
                                 /\ UNCHANGED memo_salary
                            ELSE /\ result' = Project(o.ret, cols)
                                 /\ pc' = "bmi_prep"
                                 /\ memo_salary' = memo_salary \cup
                                       {[df |-> diabetes, diab_status |-> f,
                                         value |-> o.ret]}
    /\ result_ref' = "new"
    /\ UNCHANGED <<taxi_csv, diabetes_csv, reads, loaded, taxis, memo_filter,
                   first_filter, runs>>

\* prepared_diabetes = diabetic_bmi_prep(diabetes)
ScriptBmiPrep ==
    /\ pc = "bmi_prep"
    /\ LET o == diabetic_bmi_prep(diabetes)
       IN  /\ call' = [op |-> "diabetic_bmi_prep", df |-> diabetes]
           /\ diabetes' = o.df
           /\ result' = o.ret
           /\ result_ref' = AliasOf(o, "diabetes")
    /\ pc' = "bmi_ceiling"
    /\ UNCHANGED <<taxi_csv, diabetes_csv, reads, loaded, taxis, memo_filter,
                   memo_salary, first_filter, runs>>

\* prepared_diabetes = prepared_diabetes[prepared_diabetes['BMI'] <= max_bmi]
ScriptBmiCeiling ==
    /\ pc = "bmi_ceiling"
    /\ \E c \in BmiValues :
         /\ call' = [op |-> "bmi_ceiling", max_bmi |-> c,
                     df |-> Deref(result_ref, result)]
         /\ result' = bmi_ceiling(Deref(result_ref, result), c)
    /\ result_ref' = "new"
    /\ pc' = "gen_health"
    /\ UNCHANGED <<taxi_csv, diabetes_csv, reads, loaded, taxis, diabetes,
                   memo_filter, memo_salary, first_filter, runs>>

\* applicable_gen_health = gen_health_prep(diabetes, diabetes_status_tree)
ScriptGenHealth ==
    /\ pc = "gen_health"
    /\ \E f \in Flags :
         LET o == gen_health_prep(diabetes, f)
         IN  /\ call' = [op |-> "gen_health_prep", diab_status |-> f, df |-> diabetes]
             /\ diabetes' = o.df
             /\ result' = o.ret
             /\ result_ref' = AliasOf(o, "diabetes")
             /\ pc' = IF o.err THEN "halted" ELSE "idle"
    /\ UNCHANGED <<taxi_csv, diabetes_csv, reads, loaded, taxis, memo_filter,
                   memo_salary, first_filter, runs>>

\* An interaction: the script runs again from the top, its names unbound.
Rerun ==
    /\ pc \in {"idle", "halted"}
    /\ runs < MaxRuns
    /\ runs' = runs + 1
    /\ pc' = "load"
    /\ call' = [op |-> "none"]
    /\ result' = NoFrame
    /\ result_ref' = "new"
    /\ UNCHANGED <<taxi_csv, diabetes_csv, reads, loaded, taxis, diabetes,
                   memo_filter, memo_salary, first_filter>>

Next ==
    \/ LoadData
    \/ ScriptFilter
    \/ ScriptMap
    \/ ScriptSalary
    \/ ScriptBmiPrep
    \/ ScriptBmiCeiling
    \/ ScriptGenHealth
    \/ Rerun

Spec == Init /\ [][Next]_vars

(***************************************************************************)
(* What the claims speak of.                                               *)
(***************************************************************************)
Returned(op) == pc = "returned" /\ call.op = op

Finished(op) == pc \in {"returned", "raised"} /\ call.op = op

\* A record's diabetes indicator (0 is false, anything else true) matches flag.
Matches(row, flag) == (row["Diabetes_binary"] # 0) <=> (flag = "True")

\* The records of df (by position) that flag selects.
Partition(df, flag) == {i \in DOMAIN df.rows : Matches(df.rows[i], flag)}

OtherFlag(flag) == IF flag = "True" THEN "False" ELSE "True"

\* The records of sel, seen through the columns of df, are those of df with P.
SameRecords(sel, df, P(_)) ==
    /\ df.cols \subseteq sel.cols
    /\ Project(sel, df.cols).rows = SelectSeq(df.rows, P)

RECURSIVE SumCounts(_)
SumCounts(rows) ==
    IF rows = <<>> THEN 0
    ELSE Head(rows)["Number of Individuals"] + SumCounts(Tail(rows))

InWindow(d, t) == 2 * (t - 1) <= d /\ d <= 2 * t

InSlider(t) == t \in SliderMin..SliderMax

\* C1: diabetic_salary_prep(survey, flag) returns exactly one row per income
\* code occurring among the records whose diabetes indicator matches flag, with
\* the number of those records as count and the code's label; no row for a
\* code absent from the partition; on the scenario's three records "True"
\* gives ("$15,000 - $20,000", 2) and "False" gives ("$15,000 - $20,000", 1).
C1_OneRowPerIncomeCode ==
    Returned("diabetic_salary_prep") =>
      LET P     == Partition(call.df, call.diab_status)
          codes == {call.df.rows[i]["Income"] : i \in P}
          shown == Project(result, {"Income Bracket", "Number of Individuals"})
      IN  /\ Len(result.rows) = Cardinality(codes)
          /\ \A c \in codes : \E i \in DOMAIN result.rows :
                /\ result.rows[i]["Income"] = c
                /\ result.rows[i]["Number of Individuals"] =
                      Cardinality({j \in P : call.df.rows[j]["Income"] = c})
                /\ result.rows[i]["Income Bracket"] = income_code_to_text[c]
          /\ \A i \in DOMAIN result.rows :
                /\ result.rows[i]["Income"] \in codes
                /\ result.rows[i]["Number of Individuals"] > 0
          /\ call.df = ExampleSurvey =>
                shown.rows =
                  <<("Income Bracket" :> "$15,000 - $20,000") @@
                    ("Number of Individuals" :>
                        IF call.diab_status = "True" THEN 2 ELSE 1)>>

C1_Witness ==
    /\ Returned("diabetic_salary_prep")
    /\ call.df = ExampleSurvey
    /\ call.diab_status = "True"
    /\ Len(result.rows) = 1

\* C2: on a table whose income codes are all in the CodeMap, every record is
\* selected by exactly one flag, the counts returned for "True" and for "False"
\* sum to the number of records, and every income code of the table is in one
\* of the two results.
C2_PartitionExhaustiveDisjoint ==
    (/\ Returned("diabetic_salary_prep")
     /\ \A i \in DOMAIN call.df.rows :
           call.df.rows[i]["Income"] \in DOMAIN income_code_to_text) =>
      LET other == diabetic_salary_prep(call.df, OtherFlag(call.diab_status))
          marked == has_diabetes(call.df)
          mine  == applicable(marked, call.diab_status)
          yours == applicable(marked, OtherFlag(call.diab_status))
          InRows(r, rows) == \E k \in DOMAIN rows : rows[k] = r
      IN  /\ ~other.err
          /\ \A i \in DOMAIN marked.rows :
                InRows(marked.rows[i], mine.rows) # InRows(marked.rows[i], yours.rows)
          /\ Len(mine.rows) + Len(yours.rows) = Len(call.df.rows)
          /\ SumCounts(result.rows) + SumCounts(other.ret.rows) = Len(call.df.rows)
          /\ \A i \in DOMAIN call.df.rows :
                \/ \E k \in DOMAIN result.rows :
                      result.rows[k]["Income"] = call.df.rows[i]["Income"]
                \/ \E k \in DOMAIN other.ret.rows :
                      other.ret.rows[k]["Income"] = call.df.rows[i]["Income"]

C2_Witness ==
    /\ Returned("diabetic_salary_prep")
    /\ Len(call.df.rows) = 2
    /\ Len(result.rows) = 1
    /\ \A i \in DOMAIN call.df.rows :
          call.df.rows[i]["Income"] \in DOMAIN income_code_to_text
    /\ call.df.rows[1]["Diabetes_binary"] = 1
    /\ call.df.rows[2]["Diabetes_binary"] = 0
    /\ call.df.rows[1]["Income"] # call.df.rows[2]["Income"]

IncomeOutOfDomain(row) == row["Income"] \notin DOMAIN income_code_to_text

\* The GenHlth cell is not one of the codes 1, 2, 3, 4, 5, 7, 9.
GenHlthOutOfDomain(row) ==
    row["GenHlth"] \notin {2 * c : c \in DOMAIN gen_hlth_mapping}

\* C3 as stated: a table holding any record with an out-of-domain income code
\* (general-health code) makes diabetic_salary_prep (gen_health_prep) end in a
\* lookup failure, for either flag.
C3_Original ==
    /\ (Finished("diabetic_salary_prep") /\
        \E i \in DOMAIN call.df.rows : IncomeOutOfDomain(call.df.rows[i]))
          => pc = "raised"
    /\ (Finished("gen_health_prep") /\
        \E i \in DOMAIN call.df.rows : GenHlthOutOfDomain(call.df.rows[i]))
          => pc = "raised"

\* C3 amended: diabetic_salary_prep fails exactly when a record of the
\* partition the flag selects has an out-of-domain income code;
\* gen_health_prep fails exactly when any record of the table has a
\* general-health code whose integer part is out of domain; every label a
\* call returns is the CodeMap's label of the (integer part of the) code.
C3_LookupFailurePolicy ==
    /\ Finished("diabetic_salary_prep") =>
          /\ (pc = "raised") <=>
                \E i \in Partition(call.df, call.diab_status) :
                   IncomeOutOfDomain(call.df.rows[i])
          /\ \A k \in DOMAIN result.rows :
                /\ ~IncomeOutOfDomain(result.rows[k])
                /\ result.rows[k]["Income Bracket"] =
                      income_code_to_text[result.rows[k]["Income"]]
    /\ Finished("gen_health_prep") =>
          /\ (pc = "raised") <=>
                \E i \in DOMAIN call.df.rows :
                   (call.df.rows[i]["GenHlth"] \div 2) \notin DOMAIN gen_hlth_mapping
          /\ \A k \in DOMAIN result.rows :
                result.rows[k]["General_Health_Assessment"] =
                   gen_hlth_mapping[result.rows[k]["GenHlth"] \div 2]

C3_Witness ==
    /\ Returned("diabetic_salary_prep")
    /\ call.diab_status = "True"
    /\ Len(result.rows) = 1
    /\ \E i \in DOMAIN call.df.rows : IncomeOutOfDomain(call.df.rows[i])

\* C4: for a target t in 1..25, filter_by_trip_distance(trips, t) returns
\* exactly the records with t-1 <= distance <= t, both bounds included.
C4_WindowSoundComplete ==
    (Returned("filter_by_trip_distance") /\ InSlider(call.length_of_trip)) =>
      /\ \A k \in DOMAIN result.rows :
            InWindow(result.rows[k]["Trip Miles"], call.length_of_trip)
      /\ SameRecords(result, call.df,
            LAMBDA r : InWindow(r["Trip Miles"], call.length_of_trip))

C4_Witness ==
    /\ Returned("filter_by_trip_distance")
    /\ InSlider(call.length_of_trip)
    /\ Len(call.df.rows) = 2
    /\ call.df.rows[1]["Trip Miles"] = 2 * (call.length_of_trip - 1)
    /\ call.df.rows[2]["Trip Miles"] = 2 * call.length_of_trip + 1
    /\ Len(result.rows) = 1

DocumentedHealth ==
    (1 :> "Excellent") @@ (2 :> "Very Good") @@ (3 :> "Good") @@ (4 :> "Fair") @@
    (5 :> "Poor")

\* C5: on a table whose general-health codes are all in {1,2,3,4,5,7,9} and
\* whose indicators are 0 or 1, gen_health_prep(survey, flag) returns exactly
\* the records whose indicator matches flag, each with the documented label of
\* its code (1..5) and with "Diabetic" iff its indicator is 1.
C5_GenHealthLabels ==
    (/\ Finished("gen_health_prep")
     /\ \A i \in DOMAIN call.df.rows :
           /\ ~GenHlthOutOfDomain(call.df.rows[i])
           /\ call.df.rows[i]["Diabetes_binary"] \in {0, 1}) =>
      /\ pc = "returned"
      /\ SameRecords(result, call.df,
            LAMBDA r : r["Diabetes_binary"] = (IF call.diab_status = "True" THEN 1 ELSE 0))
      /\ \A k \in DOMAIN result.rows :
            LET r == result.rows[k]
            IN  /\ (r["GenHlth"] \in {2 * c : c \in DOMAIN DocumentedHealth}) =>
                      \E c \in DOMAIN DocumentedHealth :
                         /\ r["GenHlth"] = 2 * c
                         /\ r["General_Health_Assessment"] = DocumentedHealth[c]
                /\ (r["has_diabetes_human_readable"] = "Diabetic") <=>
                      (r["Diabetes_binary"] = 1)
                /\ r["has_diabetes_human_readable"] \in {"Diabetic", "Non-Diabetic"}
                /\ r["has_diabetes_human_readable"] =
                      (IF call.diab_status = "True" THEN "Diabetic" ELSE "Non-Diabetic")

C5_Witness ==
    /\ Returned("gen_health_prep")
    /\ call.diab_status = "True"
    /\ Len(call.df.rows) = 2
    /\ Len(result.rows) = 1
    /\ result.rows[1]["General_Health_Assessment"] = "Good"
    /\ result.rows[1]["has_diabetes_human_readable"] = "Diabetic"
    /\ \A i \in DOMAIN call.df.rows :
          /\ ~GenHlthOutOfDomain(call.df.rows[i])
          /\ call.df.rows[i]["Diabetes_binary"] \in {0, 1}

\* C6: diabetic_bmi_prep removes no record and labels each "Diabetic" when
\* its indicator is true, "Non-Diabetic" otherwise; the ceiling applied to its
\* result keeps exactly the records with BMI <= ceiling, so a BMI equal to the
\* ceiling stays and a BMI one above it goes, for every ceiling in 1..100.
C6_BmiPrepAndCeiling ==
    /\ (pc = "prepared" /\ call.op = "diabetic_bmi_prep") =>
          LET prepared == Deref(result_ref, result)
          IN  /\ SameRecords(prepared, call.df, LAMBDA r : TRUE)
              /\ \A k \in DOMAIN prepared.rows :
                    prepared.rows[k]["Diabetic Status"] =
                       (IF prepared.rows[k]["Diabetes_binary"] # 0
                          THEN "Diabetic" ELSE "Non-Diabetic")
    /\ Returned("diabetic_bmi_prep") =>
          /\ call.max_bmi \in BmiMin..BmiMax
          /\ SameRecords(result, call.df, LAMBDA r : r["BMI"] <= call.max_bmi)
          /\ \A i \in DOMAIN call.df.rows :
                LET kept == \E k \in DOMAIN result.rows :
                               Project(result, SurveyColumns).rows[k] = call.df.rows[i]
                IN  /\ call.df.rows[i]["BMI"] = call.max_bmi => kept
                    /\ call.df.rows[i]["BMI"] = call.max_bmi + 1 => ~kept

C6_Witness ==
    /\ Returned("diabetic_bmi_prep")
    /\ Len(call.df.rows) = 2
    /\ call.df.rows[1]["BMI"] = call.max_bmi
    /\ call.df.rows[2]["BMI"] = call.max_bmi + 1
    /\ Len(result.rows) = 1
    /\ result.rows[1]["BMI"] = call.max_bmi
    /\ result.rows[1]["Diabetic Status"] = "Diabetic"

\* C9 as stated: for a target outside 1..25 the call completes without error
\* and returns an empty result.
C9_Original ==
    (Finished("filter_by_trip_distance") /\ ~InSlider(call.length_of_trip)) =>
      /\ pc = "returned"
      /\ result.rows = <<>>

\* C9 amended: for a target t outside 1..25 the call completes without error
\* and returns exactly the records with t-1 <= distance <= t; the result is
\* empty when, and only when, no record of the table lies in that window.
C9_OutOfRangeTarget ==
    (Finished("filter_by_trip_distance") /\ ~InSlider(call.length_of_trip)) =>
      /\ pc = "returned"
      /\ SameRecords(result, call.df,
            LAMBDA r : InWindow(r["Trip Miles"], call.length_of_trip))
      /\ (result.rows = <<>>) <=>
            ~\E i \in DOMAIN call.df.rows :
                InWindow(call.df.rows[i]["Trip Miles"], call.length_of_trip)

C9_Witness ==
    /\ Returned("filter_by_trip_distance")
    /\ call.length_of_trip = 0
    /\ Len(call.df.rows) = 1
    /\ call.df.rows[1]["Trip Miles"] = 0
    /\ Len(result.rows) = 1

\* What load_data returned when it read the files.
LoadedTaxis == dropna_lonlat(read_csv(taxi_csv, TripColumns))

LoadedDiabetes == read_csv(diabetes_csv, SurveyColumns)

\* C7 as stated: after load the survey table the process holds (its columns
\* and the values of its records) stays equal to what the loader returned,
\* whatever calls have been made on it.
C7_Original == loaded => diabetes = LoadedDiabetes

\* C8: filter_by_trip_distance returns a copy and leaves the trip table alone:
\* whatever filter calls and map steps have run, the cached trip table is what
\* load_data returned, and a call with a target used before returns a result
\* equal to the one the first call with that target returned.
C8_FilterCopies ==
    /\ loaded => taxis = LoadedTaxis
    /\ pc = "map" =>
          /\ result_ref = "new"
          /\ result = first_filter[call.length_of_trip]

C8_Witness ==
    /\ runs = 2
    /\ pc = "map"
    /\ call.hit
    /\ Len(result.rows) = 1
    /\ "lat" \notin result.cols
    /\ taxis = LoadedTaxis

\* C10: over any sequence of script runs the files are read at most once:
\* the first load_data call reads them and drops every trip row lacking a
\* pickup latitude or longitude; every later call returns the cached pair
\* (the same trip rows, the same survey records) without reading again.
C10_ReadOnce ==
    /\ reads <= 1
    /\ loaded <=> (reads = 1)
    /\ pc # "load" => loaded
    /\ loaded =>
          /\ \A k \in DOMAIN taxis.rows :
                /\ taxis.rows[k]["Pickup_Centroid_Latitude"] # NaN
                /\ taxis.rows[k]["Pickup_Centroid_Longitude"] # NaN
          /\ SameRecords(taxis, Frame(TripColumns, taxi_csv),
                LAMBDA r : /\ r["Pickup_Centroid_Latitude"] # NaN
                           /\ r["Pickup_Centroid_Longitude"] # NaN)
          /\ SameRecords(diabetes, Frame(SurveyColumns, diabetes_csv), LAMBDA r : TRUE)

C10_Witness ==
    /\ runs = 2
    /\ pc = "filter"
    /\ reads = 1
    /\ Len(taxi_csv) = 2
    /\ Len(taxis.rows) = 1

====
